---- MODULE Spec2Model ----
(***************************************************************************)
(* Model of three leaf components of hydrogram:                            *)
(*   - GetChatPhotos.get_chat_photos  (async generator, pull driven)       *)
(*   - ForwardMessages.forward_messages                                    *)
(*   - ChatMember._parse                                                   *)
(* One behaviour exercises one component (variable comp).                  *)
(***************************************************************************)
EXTENDS Integers, Sequences, FiniteSets, TLC

(* ---------------- bounds of the model ---------------- *)
MaxFileId == 3
MaxSearch == 3
MaxSmallLimit == 4
MaxStore == 300
MaxMsgId == 2
MaxIds == 3
MaxUpdates == 3
MaxRnd == 2
MaxUserId == 2
MaxChatId == 1

(* ---------------- program constants ---------------- *)
PageSize == 100
\* The code's sentinel is 1 << 31 = 2147483648, one more than the largest
\* integer TLC represents; the model uses 2^31 - 1.  Every count, offset and
\* limit of the model is far below both values, so every comparison and every
\* min() with the sentinel evaluates as it does in the code.
Sentinel == 2147483647

VARIABLES
    comp,        \* which component this behaviour exercises
    \* ---- get_chat_photos ----
    target,      \* kind of the resolved peer: "channel" | "user"
    arg_limit,   \* the limit argument as passed by the caller
    chat_photo,  \* channel: file id of full_chat.chat_photo, 0 = not set
    store,       \* user: number of photos the gateway holds for the user
    gen,         \* generator position: "created" | "suspended" | "ended"
    search_r,    \* channel: the new_chat_photo list of the Search result
    photos,      \* the page (user) or merged list (channel) held in memory
    idx,         \* index in photos of the element yielded last
    current,     \* running counter (enumerate index / yielded count)
    total,       \* user: requested total
    limit,       \* user: page size requested on every round
    offset,      \* user: cursor
    yielded,     \* what the consumer has received so far
    rpcs,        \* log of gateway calls
    pulls,       \* number of "next element" requests served
    \* ---- forward_messages ----
    rnd,         \* state of the client's correlation-id generator
    f_arg,       \* the message_ids argument of the last call
    f_request,   \* the ForwardMessages request sent by the last call
    f_rnd_calls, \* number of rnd_id() calls the last call made
    f_updates,   \* r.updates of the gateway's answer to the last call
    f_result,    \* what the last call returned or raised
    \* ---- ChatMember._parse ----
    p_member,    \* the raw participant record
    p_users,     \* side-loaded users table
    p_chats,     \* side-loaded chats table
    p_result     \* what _parse returned or raised

photo_vars == <<target, arg_limit, chat_photo, store, gen, search_r, photos,
                idx, current, total, limit, offset, yielded, rpcs, pulls>>

fwd_vars == <<rnd, f_arg, f_request, f_rnd_calls, f_updates, f_result>>

member_vars == <<p_member, p_users, p_chats, p_result>>

vars == <<comp, photo_vars, fwd_vars, member_vars>>

(* ---------------- helpers ---------------- *)
Min(a, b) == IF a <= b THEN a ELSE b

Take(s, n) == SubSeq(s, 1, Min(n, Len(s)))

CeilDiv(a, b) == (a + b - 1) \div b

SeqsUpTo(S, n) == UNION {[1..k -> S] : k \in 0..n}

(* ---------------- get_chat_photos: pure parts ---------------- *)

\* types.Photo._parse(self, r.full_chat.chat_photo) or []
ParseChatPhoto(cp) ==
    IF cp = 0 THEN <<>> ELSE <<[file_id |-> cp, from |-> "chat_photo"]>>

\* [message.new_chat_photo for message in r]
ExtraOf(ids) == [i \in 1..Len(ids) |-> [file_id |-> ids[i], from |-> "search"]]

Merge_AlwaysPrepend(cur, extra) == cur \o extra

\* the merge of the current photo with the search results
Merge(cur, extra) ==
    IF extra # <<>>
    THEN IF cur # <<>>
         THEN IF cur[1].file_id # extra[1].file_id THEN cur \o extra ELSE extra
         ELSE extra
    ELSE cur

\* if current >= limit: return      (channel loop)
ReachedLimit(cur, lim) == cur >= lim

\* total = limit or (1 << 31)
Total(lim) == IF lim # 0 THEN lim ELSE Sentinel

PageLimit_Uncapped(tot) == tot

\* limit = min(100, total)
PageLimit(tot) == Min(PageSize, tot)

ReachedTotal_Strict(cur, tot) == cur > tot

\* if current >= total: return      (user loop)
ReachedTotal(cur, tot) == cur >= tot

PageExhausted_OneEarly(i, page) == i + 1 >= Len(page)

\* the for loop over the photos held in memory has no element left
PageExhausted(i, page) == i >= Len(page)

\* The gateway's answer to GetUserPhotos(offset, limit): the slice
\* photos[offset : offset+limit] of the user's store, photo i having file id i.
GetUserPhotos(S, off, lim) ==
    [i \in 1..(Min(off + lim, S) - Min(off, S)) |-> off + i]

\* [types.Photo._parse(self, photo) for photo in r.photos]
ParseUserPhotos(raw) ==
    [i \in 1..Len(raw) |-> [file_id |-> raw[i], from |-> "user_photos"]]

Rpc(fn, off, lim, n, p) ==
    [fn |-> fn, offset |-> off, limit |-> lim, count |-> n, pull |-> p]

(* ---------------- forward_messages: pure parts ---------------- *)

NoMessage == [message_id |-> 0]

\* message_ids as passed: an int, or an iterable of ints
IntArg(n) == [tag |-> "int", int |-> n, items |-> <<>>]
IterArg(s) == [tag |-> "iterable", int |-> 0, items |-> s]

\* is_iterable = not isinstance(message_ids, int)
IsIterable(arg) == arg.tag # "int"

\* message_ids = list(message_ids) if is_iterable else [message_ids]
MessageIdList(arg) == IF IsIterable(arg) THEN arg.items ELSE <<arg.int>>

\* Client.rnd_id(): the generator hands out a value it has not handed out
\* before; g is the generator's state.
rnd_id(g) == [value |-> g + 1, state |-> g + 1]

RECURSIVE RndAfter(_, _)
\* the generator's state after k successive calls
RndAfter(g, k) == IF k = 0 THEN g ELSE rnd_id(RndAfter(g, k - 1)).state

RandomIds_OneForAll(ids, g) == [i \in 1..Len(ids) |-> rnd_id(g).value]

\* random_id=[self.rnd_id() for _ in message_ids]
RandomIds(ids, g) == [i \in 1..Len(ids) |-> rnd_id(RndAfter(g, i - 1)).value]

NewMessageKinds == {"UpdateNewMessage", "UpdateNewChannelMessage",
                    "UpdateNewScheduledMessage"}

IsNewMessageUpdate_NoScheduled(u) ==
    u.kind \in {"UpdateNewMessage", "UpdateNewChannelMessage"}

\* isinstance(i, (UpdateNewMessage, UpdateNewChannelMessage, UpdateNewScheduledMessage))
IsNewMessageUpdate(u) == u.kind \in NewMessageKinds

\* types.Message._parse(self, i.message, users, chats)
ParseMessage(raw) == [message_id |-> raw]

RECURSIVE ForwardedMessages(_)
\* [await Message._parse(...) for i in r.updates if isinstance(i, ...)]
ForwardedMessages(updates) ==
    IF updates = <<>> THEN <<>>
    ELSE IF IsNewMessageUpdate(Head(updates))
         THEN <<ParseMessage(Head(updates).message)>> \o ForwardedMessages(Tail(updates))
         ELSE ForwardedMessages(Tail(updates))

\* return types.List(forwarded_messages) if is_iterable else forwarded_messages[0]
ForwardResult(is_iterable, msgs) ==
    IF is_iterable
    THEN [tag |-> "List", list |-> msgs, message |-> NoMessage]
    ELSE IF msgs = <<>>
         THEN [tag |-> "IndexError", list |-> <<>>, message |-> NoMessage]
         ELSE [tag |-> "Message", list |-> <<>>, message |-> msgs[1]]

NoRequest == [id |-> <<>>, random_id |-> <<>>]

NoResult == [tag |-> "none", list |-> <<>>, message |-> NoMessage]

FwdNotCalled ==
    /\ f_arg = IterArg(<<>>) /\ f_request = NoRequest
    /\ f_rnd_calls = 0 /\ f_updates = <<>> /\ f_result = NoResult

FwdIdle == rnd = 0 /\ FwdNotCalled

MessageIdArgs == {IntArg(n) : n \in 1..MaxMsgId} \cup
                 {IterArg(s) : s \in SeqsUpTo(1..MaxMsgId, MaxIds)}

UpdateKinds == NewMessageKinds \cup {"UpdateReadHistoryInbox"}

Updates == [kind : UpdateKinds, message : 1..MaxMsgId]

\* One whole call of forward_messages; the gateway answers with any update list.
forward_messages ==
    /\ comp = "forward" /\ f_result.tag = "none"
    /\ \E arg \in MessageIdArgs, updates \in SeqsUpTo(Updates, MaxUpdates) :
         LET ids == MessageIdList(arg)
         IN  /\ f_arg' = arg
             /\ f_request' = [id |-> ids, random_id |-> RandomIds(ids, rnd)]
             /\ f_rnd_calls' = Len(ids)
             /\ rnd' = RndAfter(rnd, Len(ids))
             /\ f_updates' = updates
             /\ f_result' = ForwardResult(IsIterable(arg), ForwardedMessages(updates))
    /\ UNCHANGED <<comp, photo_vars, member_vars>>

(* ---------------- ChatMember._parse ---------------- *)

NoneId == -1

None == <<>>
Some(x) == <<x>>

\* Python truthiness of an optional int: None and 0 are false
Truthy(x) == x # NoneId /\ x # 0

Peer(kind, id) == [kind |-> kind, id |-> id]

Member(variant, user_id, inviter_id, promoted_by, kicked_by, view_messages, peer, left) ==
    [variant |-> variant, user_id |-> user_id, inviter_id |-> inviter_id,
     promoted_by |-> promoted_by, kicked_by |-> kicked_by,
     view_messages |-> view_messages, peer |-> peer, left |-> left]

NoPeer == Peer("none", 0)

UserIds == 1..MaxUserId

Members ==
    {Member(v, u, i, NoneId, NoneId, FALSE, NoPeer, FALSE) :
        v \in {"ChatParticipant", "ChatParticipantAdmin", "ChannelParticipantSelf"},
        u \in UserIds, i \in 0..MaxUserId}
    \cup
    {Member(v, u, NoneId, NoneId, NoneId, FALSE, NoPeer, FALSE) :
        v \in {"ChatParticipantCreator", "ChannelParticipant",
               "ChannelParticipantCreator", "ChatParticipantsForbidden"},
        u \in UserIds}
    \cup
    {Member("ChannelParticipantAdmin", u, i, p, NoneId, FALSE, NoPeer, FALSE) :
        u \in UserIds, i \in {NoneId} \cup (0..MaxUserId), p \in UserIds}
    \cup
    {Member("ChannelParticipantBanned", NoneId, NoneId, NoneId, k, vm, Peer(pk, 1), l) :
        k \in UserIds, vm \in BOOLEAN, pk \in {"PeerUser", "PeerChannel"}, l \in BOOLEAN}
    \cup
    {Member("ChannelParticipantLeft", NoneId, NoneId, NoneId, NoneId, FALSE, Peer(pk, 1), FALSE) :
        pk \in {"PeerUser", "PeerChannel"}}

\* a side-loaded table: id -> raw entity
Table(ids) == [i \in ids |-> [id |-> i]]

\* types.User._parse(client, raw_user)
ParseUser(raw) == [user_id |-> raw.id]

\* types.Chat._parse_chat(client, raw_chat)
ParseChat(raw) == [chat_id |-> raw.id]

BannedStatus_Swapped(view_messages) == IF view_messages THEN "RESTRICTED" ELSE "BANNED"

\* BANNED if member.banned_rights.view_messages else RESTRICTED
BannedStatus(view_messages) == IF view_messages THEN "BANNED" ELSE "RESTRICTED"

AdminLooksUpInviter_Always(inviter_id) == TRUE

\* users[member.inviter_id] if member.inviter_id else None   (ChannelParticipantAdmin)
AdminLooksUpInviter(inviter_id) == Truthy(inviter_id)

\* the status each isinstance branch of _parse assigns
Status(m) ==
    CASE m.variant = "ChatParticipant" -> "MEMBER"
      [] m.variant = "ChatParticipantAdmin" -> "ADMINISTRATOR"
      [] m.variant = "ChatParticipantCreator" -> "OWNER"
      [] m.variant = "ChannelParticipant" -> "MEMBER"
      [] m.variant = "ChannelParticipantAdmin" -> "ADMINISTRATOR"
      [] m.variant = "ChannelParticipantBanned" -> BannedStatus(m.view_messages)
      [] m.variant = "ChannelParticipantCreator" -> "OWNER"
      [] m.variant = "ChannelParticipantLeft" -> "LEFT"
      [] m.variant = "ChannelParticipantSelf" -> "MEMBER"
      [] OTHER -> "none"

KnownVariants == {"ChatParticipant", "ChatParticipantAdmin", "ChatParticipantCreator",
                  "ChannelParticipant", "ChannelParticipantAdmin",
                  "ChannelParticipantBanned", "ChannelParticipantCreator",
                  "ChannelParticipantLeft", "ChannelParticipantSelf"}

\* the ids the branch taken for m indexes in the users table
UserLookups(m) ==
    CASE m.variant \in {"ChatParticipant", "ChatParticipantAdmin", "ChannelParticipantSelf"} ->
            {m.user_id, m.inviter_id}
      [] m.variant \in {"ChatParticipantCreator", "ChannelParticipant",
                        "ChannelParticipantCreator"} ->
            {m.user_id}
      [] m.variant = "ChannelParticipantAdmin" ->
            {m.user_id, m.promoted_by} \cup
            (IF AdminLooksUpInviter(m.inviter_id) THEN {m.inviter_id} ELSE {})
      [] m.variant = "ChannelParticipantBanned" ->
            (IF m.peer.kind = "PeerUser" THEN {m.peer.id} ELSE {}) \cup {m.kicked_by}
      [] m.variant = "ChannelParticipantLeft" ->
            (IF m.peer.kind = "PeerUser" THEN {m.peer.id} ELSE {})
      [] OTHER -> {}

\* the ids the branch taken for m indexes in the chats table
ChatLookups(m) ==
    IF m.variant \in {"ChannelParticipantBanned", "ChannelParticipantLeft"}
       /\ m.peer.kind # "PeerUser"
    THEN {m.peer.id} ELSE {}

Resolve(users, id) == Some(ParseUser(users[id]))

\* the invited_by keyword of the branch taken for m
InvitedBy(m, users) ==
    CASE m.variant \in {"ChatParticipant", "ChatParticipantAdmin", "ChannelParticipantSelf"} ->
            Resolve(users, m.inviter_id)
      [] m.variant = "ChannelParticipantAdmin" ->
            IF AdminLooksUpInviter(m.inviter_id) THEN Resolve(users, m.inviter_id) ELSE None
      [] OTHER -> None

\* the user keyword of the branch taken for m
UserOf(m, users) ==
    CASE m.variant \in {"ChannelParticipantBanned", "ChannelParticipantLeft"} ->
            IF m.peer.kind = "PeerUser" THEN Resolve(users, m.peer.id) ELSE None
      [] OTHER -> Resolve(users, m.user_id)

\* the chat keyword of the branch taken for m
ChatOf(m, chats) ==
    IF m.variant \in {"ChannelParticipantBanned", "ChannelParticipantLeft"}
       /\ m.peer.kind # "PeerUser"
    THEN Some(ParseChat(chats[m.peer.id])) ELSE None

NoParse(tag) ==
    [tag |-> tag, status |-> "none", user |-> None, chat |-> None,
     invited_by |-> None, promoted_by |-> None, restricted_by |-> None,
     is_member |-> None]

\* ChatMember._parse(client, member, users, chats)
Parse(m, users, chats) ==
    IF m.variant \notin KnownVariants THEN NoParse("None")
    ELSE IF ~ (UserLookups(m) \subseteq DOMAIN users /\ ChatLookups(m) \subseteq DOMAIN chats)
    THEN NoParse("KeyError")
    ELSE [tag |-> "ChatMember",
          status |-> Status(m),
          user |-> UserOf(m, users),
          chat |-> ChatOf(m, chats),
          invited_by |-> InvitedBy(m, users),
          promoted_by |-> IF m.variant = "ChannelParticipantAdmin"
                          THEN Resolve(users, m.promoted_by) ELSE None,
          restricted_by |-> IF m.variant = "ChannelParticipantBanned"
                            THEN Resolve(users, m.kicked_by) ELSE None,
          is_member |-> IF m.variant = "ChannelParticipantBanned"
                        THEN Some(~ m.left) ELSE None]

NoMember == Member("none", NoneId, NoneId, NoneId, NoneId, FALSE, NoPeer, FALSE)

MemberIdle ==
    /\ p_member = NoMember /\ p_users = Table({}) /\ p_chats = Table({})
    /\ p_result = NoParse("none")

\* One call of ChatMember._parse on a record and its side-loaded tables.
ChatMember_parse ==
    /\ comp = "member" /\ p_result.tag = "none"
    /\ \E m \in Members, us \in SUBSET (0..MaxUserId), cs \in SUBSET (1..MaxChatId) :
         /\ p_member' = m
         /\ p_users' = Table(us)
         /\ p_chats' = Table(cs)
         /\ p_result' = Parse(m, Table(us), Table(cs))
    /\ UNCHANGED <<comp, photo_vars, fwd_vars>>

PhotosIdle ==
    /\ target = "user" /\ arg_limit = 0 /\ chat_photo = 0 /\ store = 0
    /\ gen = "ended" /\ search_r = <<>> /\ photos = <<>> /\ idx = 0
    /\ current = 0 /\ total = 0 /\ limit = 0 /\ offset = 0
    /\ yielded = <<>> /\ rpcs = <<>> /\ pulls = 0

\* the generator has served any number of earlier calls
InitForward ==
    /\ comp = "forward"
    /\ rnd \in 0..MaxRnd
    /\ PhotosIdle /\ FwdNotCalled /\ MemberIdle

InitMember ==
    /\ comp = "member"
    /\ PhotosIdle /\ FwdIdle /\ MemberIdle

(* ---------------- inputs ---------------- *)
Limits == (0..MaxSmallLimit) \cup
          {PageSize - 1, PageSize, PageSize + 1, PageSize + (PageSize \div 2),
           2 * PageSize, 2 * PageSize + (PageSize \div 2),
           MaxStore - 1, MaxStore, MaxStore + 1}

StoreSizes == {0, 1, 2, 3, PageSize - 1, PageSize, PageSize + 1,
               PageSize + (PageSize \div 2), 2 * PageSize, 2 * PageSize + 1,
               2 * PageSize + (PageSize \div 2), MaxStore - 1, MaxStore}

SearchIds == SeqsUpTo(1..MaxFileId, MaxSearch)

InitPhotos ==
    /\ comp = "photos"
    /\ FwdIdle /\ MemberIdle
    /\ target \in {"channel", "user"}
    /\ arg_limit \in Limits
    /\ IF target = "channel"
       THEN chat_photo \in 0..MaxFileId /\ store = 0
       ELSE chat_photo = 0 /\ store \in StoreSizes
    /\ gen = "created"
    /\ search_r = <<>>
    /\ photos = <<>>
    /\ idx = 0
    /\ current = 0
    /\ total = 0
    /\ limit = arg_limit
    /\ offset = 0
    /\ yielded = <<>>
    /\ rpcs = <<>>
    /\ pulls = 0

(* ---------------- get_chat_photos: the generator ---------------- *)

\* First pull on a channel target: GetFullChannel, Search, merge, then the
\* first yield (or the end of the sequence when there is nothing to yield).
PullChannelFirst ==
    /\ comp = "photos" /\ target = "channel" /\ gen = "created"
    /\ \E ids \in SearchIds :
         LET cur    == ParseChatPhoto(chat_photo)
             extra  == ExtraOf(ids)
             merged == Merge(cur, extra)
         IN  /\ search_r' = extra
             /\ photos' = merged
             /\ rpcs' = rpcs \o <<Rpc("GetFullChannel", 0, 0, Len(cur), pulls + 1),
                                  Rpc("Search", 0, limit, Len(extra), pulls + 1)>>
             /\ IF merged = <<>>
                THEN /\ gen' = "ended"
                     /\ UNCHANGED <<idx, current, yielded>>
                ELSE /\ gen' = "suspended"
                     /\ idx' = 1
                     /\ current' = 1
                     /\ yielded' = Append(yielded, merged[1])
    /\ pulls' = pulls + 1
    /\ UNCHANGED <<comp, target, arg_limit, chat_photo, store, total, limit, offset,
                   fwd_vars, member_vars>>

\* Later pulls on a channel target: resume after the yield.
PullChannelNext ==
    /\ comp = "photos" /\ target = "channel" /\ gen = "suspended"
    /\ IF ReachedLimit(current, limit) \/ PageExhausted(idx, photos)
       THEN /\ gen' = "ended"
            /\ UNCHANGED <<idx, current, yielded>>
       ELSE /\ gen' = "suspended"
            /\ idx' = idx + 1
            /\ current' = current + 1
            /\ yielded' = Append(yielded, photos[idx + 1])
    /\ pulls' = pulls + 1
    /\ UNCHANGED <<comp, target, arg_limit, chat_photo, store, search_r, photos,
                   total, limit, offset, rpcs, fwd_vars, member_vars>>

\* One iteration of "while True" up to its first yield or return.
UserRound(tot, lim, off) ==
    LET raw  == GetUserPhotos(store, off, lim)
        page == ParseUserPhotos(raw)
    IN  /\ rpcs' = Append(rpcs, Rpc("GetUserPhotos", off, lim, Len(raw), pulls + 1))
        /\ photos' = page
        /\ IF page = <<>>
           THEN /\ gen' = "ended"
                /\ UNCHANGED <<idx, offset, yielded>>
           ELSE /\ gen' = "suspended"
                /\ offset' = off + Len(page)
                /\ idx' = 1
                /\ yielded' = Append(yielded, page[1])

\* First pull on a user target.
PullUserFirst ==
    /\ comp = "photos" /\ target = "user" /\ gen = "created"
    /\ current' = 0
    /\ total' = Total(limit)
    /\ limit' = PageLimit(Total(limit))
    /\ UserRound(Total(limit), PageLimit(Total(limit)), 0)
    /\ pulls' = pulls + 1
    /\ UNCHANGED <<comp, target, arg_limit, chat_photo, store, search_r,
                   fwd_vars, member_vars>>

\* Later pulls on a user target: resume after the yield.
PullUserNext ==
    /\ comp = "photos" /\ target = "user" /\ gen = "suspended"
    /\ current' = current + 1
    /\ IF ReachedTotal(current + 1, total)
       THEN /\ gen' = "ended"
            /\ UNCHANGED <<photos, idx, offset, yielded, rpcs>>
       ELSE IF ~ PageExhausted(idx, photos)
            THEN /\ gen' = "suspended"
                 /\ idx' = idx + 1
                 /\ yielded' = Append(yielded, photos[idx + 1])
                 /\ UNCHANGED <<photos, offset, rpcs>>
            ELSE UserRound(total, limit, offset)
    /\ pulls' = pulls + 1
    /\ UNCHANGED <<comp, target, arg_limit, chat_photo, store, search_r, total, limit,
                   fwd_vars, member_vars>>

Init == InitPhotos \/ InitForward \/ InitMember

Next ==
    \/ PullChannelFirst
    \/ PullChannelNext
    \/ PullUserFirst
    \/ PullUserNext
    \/ forward_messages
    \/ ChatMember_parse

Spec == Init /\ [][Next]_vars

FairSpec == Spec /\ WF_vars(Next)

(* ======================= properties ======================= *)

PhotosEnded(kind) == comp = "photos" /\ target = kind /\ gen = "ended"

\* the merged photo list of a channel, as the specification states it
MergedList ==
    IF search_r = <<>> THEN ParseChatPhoto(chat_photo)
    ELSE IF chat_photo = 0 THEN search_r
    ELSE IF chat_photo = search_r[1].file_id THEN search_r
    ELSE <<[file_id |-> chat_photo, from |-> "chat_photo"]>> \o search_r

\* every photo of the user's store, in store order
StorePhotos == [i \in 1..store |-> [file_id |-> i, from |-> "user_photos"]]

\* the requested total: limit, or the sentinel when limit = 0
RequestedTotal == IF arg_limit = 0 THEN Sentinel ELSE arg_limit

\* C1: with limit = 0 the finished stream holds every element of the merged
\* list (channel target) or every photo of the store (user target).
C1_LimitZeroYieldsAll ==
    (comp = "photos" /\ gen = "ended" /\ arg_limit = 0) =>
        IF target = "channel" THEN yielded = MergedList ELSE yielded = StorePhotos

\* C2: for a channel target and limit L >= 1 the stream is, at every moment, a
\* prefix of the merged list no longer than L, and once ended it is exactly
\* the first L elements of the merged list (all of it when shorter).
C2_ChannelYieldsPrefixOfMerged ==
    (comp = "photos" /\ target = "channel" /\ arg_limit >= 1 /\ gen # "created") =>
        /\ Len(yielded) <= arg_limit
        /\ yielded = Take(MergedList, Len(yielded))
        /\ gen = "ended" => yielded = Take(MergedList, arg_limit)

C2_Witness ==
    /\ PhotosEnded("channel") /\ arg_limit = 2
    /\ Len(search_r) = 3 /\ chat_photo # 0 /\ search_r[1].file_id = chat_photo
    /\ yielded = SubSeq(search_r, 1, 2)

\* C3 as stated: for a limit that does not truncate (0 or >= S) the stream is
\* the whole store and exactly ceil(S/100) rounds were issued, none empty.
C3_ExactlyCeilRoundsNoneEmpty ==
    (PhotosEnded("user") /\ pulls > 0 /\ (arg_limit = 0 \/ arg_limit >= store)) =>
        /\ yielded = StorePhotos
        /\ Len(rpcs) = CeilDiv(store, PageSize)
        /\ \A i \in 1..Len(rpcs) : rpcs[i].count > 0

\* C3 amended: the stream is the whole store; only when limit = S >= 1 does the
\* count stop the loop after ceil(S/100) non-empty rounds; in every other case
\* (limit = 0 or limit > S) ceil(S/100) non-empty rounds are followed by one
\* more round that returns the empty page and ends the stream.
C3_RoundsUntilEmptyPage ==
    (PhotosEnded("user") /\ pulls > 0 /\ (arg_limit = 0 \/ arg_limit >= store)) =>
        LET n == CeilDiv(store, PageSize) IN
        /\ yielded = StorePhotos
        /\ \A i \in 1..Len(rpcs) : i <= n =>
              rpcs[i].count = Min(PageSize, store - (i - 1) * PageSize)
        /\ IF arg_limit = store /\ store >= 1
           THEN Len(rpcs) = n
           ELSE Len(rpcs) = n + 1 /\ rpcs[n + 1].count = 0

C3_Witness ==
    /\ PhotosEnded("user") /\ arg_limit = 0
    /\ store = 2 * PageSize + (PageSize \div 2)
    /\ Len(yielded) = store
    /\ Len(rpcs) = 4 /\ rpcs[3].count = PageSize \div 2 /\ rpcs[4].count = 0

C4_EndsProperly ==
    (comp = "photos" /\ target = "user") =>
        /\ gen \in {"created", "suspended", "ended"}
        /\ Len(yielded) <= RequestedTotal
        /\ (gen = "ended" /\ pulls > 0) =>
              \/ rpcs[Len(rpcs)].count = 0 /\ rpcs[Len(rpcs)].pull = pulls
              \/ Len(yielded) = RequestedTotal /\ rpcs[Len(rpcs)].pull < pulls

\* C4: for a user target the stream always ends; it ends either in the pull
\* whose RPC round returned no photo or in the pull right after the yield that
\* brought the count to the requested total, and never holds more than that
\* total.
C4_UserStreamIsFiniteAndBounded ==
    /\ []C4_EndsProperly
    /\ <>(comp = "photos" /\ target = "user" => gen = "ended")

C4_Witness ==
    /\ PhotosEnded("user") /\ arg_limit = PageSize + (PageSize \div 2)
    /\ Len(yielded) = arg_limit
    /\ Len(rpcs) = 2 /\ rpcs[2].count = PageSize

ForwardCalled == comp = "forward" /\ f_result.tag # "none"

\* C5: a scalar message_ids gives back a single message, an iterable gives
\* back a sequence, whatever update list the gateway returned.
C5_ScalarGivesMessageIterableGivesList ==
    ForwardCalled =>
        IF f_arg.tag = "int" THEN f_result.tag = "Message" ELSE f_result.tag = "List"

\* the messages of the 'new message' updates, in update-list order
KeptMessages ==
    LET kept == SelectSeq(f_updates,
                    LAMBDA u : u.kind = "UpdateNewMessage"
                               \/ u.kind = "UpdateNewChannelMessage"
                               \/ u.kind = "UpdateNewScheduledMessage")
    IN  [i \in 1..Len(kept) |-> [message_id |-> kept[i].message]]

\* C6: for an iterable message_ids the returned sequence is the parsed
\* messages of the 'new message' updates, in the order of the update list.
C6_ListIsNewMessageUpdatesInOrder ==
    (ForwardCalled /\ f_arg.tag = "iterable") =>
        /\ f_result.tag = "List"
        /\ f_result.list = KeptMessages

C6_Witness ==
    /\ ForwardCalled /\ f_arg = IterArg(<<1, 2, 2>>)
    /\ f_updates = <<[kind |-> "UpdateNewMessage", message |-> 2],
                     [kind |-> "UpdateReadHistoryInbox", message |-> 1],
                     [kind |-> "UpdateNewScheduledMessage", message |-> 1]>>
    /\ f_result.list = <<[message_id |-> 2], [message_id |-> 1]>>

\* C7: the request carries one correlation id per message id, each from its
\* own call of the generator, pairwise distinct, none handed out before.
C7_OneFreshRandomIdPerMessage ==
    ForwardCalled =>
        LET n == IF f_arg.tag = "int" THEN 1 ELSE Len(f_arg.items)
            r == f_request.random_id
        IN  /\ Len(f_request.id) = n
            /\ Len(r) = n
            /\ f_rnd_calls = n
            /\ \A i, j \in 1..n : i # j => r[i] # r[j]
            /\ {r[i] : i \in 1..n} = (rnd - n + 1)..rnd

C7_Witness ==
    /\ ForwardCalled /\ f_arg = IterArg(<<1, 1, 1>>)
    /\ Cardinality({f_request.random_id[i] : i \in 1..3}) = 3

ParseCalled == comp = "member" /\ p_result.tag # "none"

\* the status the specification's table gives each variant
TableStatus(m) ==
    CASE m.variant = "ChatParticipant" -> "MEMBER"
      [] m.variant = "ChatParticipantAdmin" -> "ADMINISTRATOR"
      [] m.variant = "ChatParticipantCreator" -> "OWNER"
      [] m.variant = "ChannelParticipant" -> "MEMBER"
      [] m.variant = "ChannelParticipantAdmin" -> "ADMINISTRATOR"
      [] m.variant = "ChannelParticipantCreator" -> "OWNER"
      [] m.variant = "ChannelParticipantLeft" -> "LEFT"
      [] m.variant = "ChannelParticipantSelf" -> "MEMBER"
      [] m.variant = "ChannelParticipantBanned" /\ m.view_messages -> "BANNED"
      [] m.variant = "ChannelParticipantBanned" /\ ~ m.view_messages -> "RESTRICTED"

\* C8: a record of a known variant whose referenced ids are all side-loaded
\* parses to a ChatMember with the status of the table; a record of any other
\* variant parses to None.
C8_StatusByVariant ==
    ParseCalled =>
        IF p_member.variant \in KnownVariants
        THEN (UserLookups(p_member) \subseteq DOMAIN p_users
              /\ ChatLookups(p_member) \subseteq DOMAIN p_chats) =>
                 /\ p_result.tag = "ChatMember"
                 /\ p_result.status = TableStatus(p_member)
        ELSE p_result.tag = "None"

C8_Witness ==
    /\ ParseCalled /\ p_member.variant = "ChannelParticipantBanned"
    /\ p_member.view_messages /\ p_member.peer.kind = "PeerChannel"
    /\ p_result.tag = "ChatMember" /\ p_result.status = "BANNED"

\* C9: a ChannelParticipantAdmin whose inviter id is 0 or absent parses to a
\* ChatMember without invited_by whether or not that id is in the users table;
\* a nonzero inviter id is resolved through the users table.
C9_AdminInviterOnlyWhenNonzero ==
    (ParseCalled /\ p_member.variant = "ChannelParticipantAdmin"
     /\ {p_member.user_id, p_member.promoted_by} \subseteq DOMAIN p_users) =>
        IF p_member.inviter_id = 0 \/ p_member.inviter_id = NoneId
        THEN p_result.tag = "ChatMember" /\ p_result.invited_by = <<>>
        ELSE IF p_member.inviter_id \in DOMAIN p_users
             THEN /\ p_result.tag = "ChatMember"
                  /\ p_result.invited_by = <<[user_id |-> p_member.inviter_id]>>
             ELSE p_result.tag = "KeyError"

C9_Witness ==
    /\ ParseCalled /\ p_member.variant = "ChannelParticipantAdmin"
    /\ p_member.inviter_id = 0 /\ 0 \notin DOMAIN p_users
    /\ p_result.tag = "ChatMember" /\ p_result.invited_by = <<>>

RECURSIVE ReturnedBefore(_)
\* the number of photos returned by the rounds before round i
ReturnedBefore(i) == IF i <= 1 THEN 0 ELSE ReturnedBefore(i - 1) + rpcs[i - 1].count

\* C10 as stated: every round asks for min(100, remaining quota) photos at the
\* offset that is the number of photos returned by the earlier rounds.
C10_PageSizeIsRemainingQuota ==
    (comp = "photos" /\ target = "user") =>
        \A i \in 1..Len(rpcs) :
            /\ rpcs[i].limit = Min(PageSize, RequestedTotal - ReturnedBefore(i))
            /\ rpcs[i].offset = ReturnedBefore(i)

\* C10 amended: every round asks for min(100, requested total) photos, the
\* same page size on every round, at the offset that is the number of photos
\* returned by the earlier rounds.
C10_PageSizeIsFixed ==
    (comp = "photos" /\ target = "user") =>
        \A i \in 1..Len(rpcs) :
            /\ rpcs[i].limit = Min(PageSize, RequestedTotal)
            /\ rpcs[i].offset = ReturnedBefore(i)

C10_Witness ==
    /\ comp = "photos" /\ target = "user"
    /\ arg_limit = PageSize + (PageSize \div 2)
    /\ Len(rpcs) = 2 /\ rpcs[2].limit = PageSize /\ rpcs[2].offset = PageSize
    /\ Len(yielded) = PageSize + 1

\* the pulls that issued the RPCs, in order of issue: none before the first
\* pull, none by a pull not yet made
RpcsBelongToPulls ==
    /\ pulls = 0 => rpcs = <<>>
    /\ \A i \in 1..Len(rpcs) : rpcs[i].pull \in 1..pulls
    /\ \A i, j \in 1..Len(rpcs) : i < j => rpcs[i].pull <= rpcs[j].pull

\* a user round issued by the latest pull found every photo of the earlier
\* pages already yielded
RoundOnlyWhenPageYielded ==
    (target = "user" /\ rpcs # <<>> /\ rpcs[Len(rpcs)].pull = pulls) =>
        Len(yielded) = ReturnedBefore(Len(rpcs)) + (IF gen = "suspended" THEN 1 ELSE 0)

\* C11 as stated: for both target kinds no pull issues more than one RPC
\* round, rounds are issued only by pulls and only once the photos held in
\* memory have all been yielded.
C11_AtMostOneRoundPerPull ==
    comp = "photos" =>
        /\ RpcsBelongToPulls
        /\ RoundOnlyWhenPageYielded
        /\ \A i, j \in 1..Len(rpcs) : i # j => rpcs[i].pull # rpcs[j].pull

\* the RPCs of each pull: one at most for a user target; for a channel target
\* GetFullChannel then Search in the first pull and nothing afterwards
RoundsPerPull ==
    IF target = "user"
    THEN \A i, j \in 1..Len(rpcs) : i # j => rpcs[i].pull # rpcs[j].pull
    ELSE \/ rpcs = <<>> /\ gen = "created"
         \/ /\ gen # "created"
            /\ Len(rpcs) = 2
            /\ rpcs[1].fn = "GetFullChannel" /\ rpcs[1].pull = 1
            /\ rpcs[2].fn = "Search" /\ rpcs[2].pull = 1

C11_StatePart ==
    comp = "photos" => RpcsBelongToPulls /\ RoundOnlyWhenPageYielded /\ RoundsPerPull

\* a step of the generator: RPCs are issued only by a pull, only when nothing
\* unyielded is held in memory and never once the sequence has ended; a pull
\* yields at most one photo, and a photo yielded by a pull that issued an RPC
\* is the first of the list that pull built from the completed answer
C11_StepPart ==
    comp = "photos" =>
        /\ rpcs' # rpcs =>
              /\ pulls' = pulls + 1
              /\ gen # "ended"
              /\ idx = Len(photos)
              /\ Len(rpcs') <= Len(rpcs) + (IF target = "user" THEN 1 ELSE 2)
              /\ SubSeq(rpcs', 1, Len(rpcs)) = rpcs
              /\ yielded' # yielded => yielded' = Append(yielded, photos'[1])
        /\ Len(yielded') <= Len(yielded) + 1
        /\ gen = "ended" => rpcs' = rpcs /\ yielded' = yielded

\* C11 amended: the generator is pull driven with no read-ahead.  No RPC is
\* issued before the first pull, after the end, or while an unyielded photo is
\* held in memory; a pull on a user target issues at most one GetUserPhotos
\* round; the first pull on a channel target issues two RPCs, GetFullChannel
\* then Search, and no later pull issues any; every RPC completes before the
\* photo of that pull is yielded.
C11_PullDrivenNoReadAhead ==
    /\ []C11_StatePart
    /\ [][C11_StepPart]_vars

C11_Witness ==
    /\ comp = "photos" /\ target = "user" /\ gen = "suspended"
    /\ pulls = PageSize + 1 /\ Len(yielded) = PageSize + 1
    /\ Len(rpcs) = 2 /\ rpcs[1].pull = 1 /\ rpcs[2].pull = PageSize + 1
    /\ idx = 1 /\ Len(photos) > 1

====
